---- MODULE Spec2Model ----
(***************************************************************************)
(* The i-node cache and namespace engine of src/bin/memfs.rs               *)
(* (MemoryFilesystem): the i-node table, the trash set of deferred         *)
(* deletions, the lookup/forget reference counts, the per-directory entry  *)
(* tables with their lazy population, the per-file content buffers, and    *)
(* the host directory tree the engine mirrors through its descriptors.     *)
(*                                                                         *)
(* One action per FUSE callback.  A handler that hits expect()/panic!() or *)
(* a failing debug_assert!() stops the daemon: the action sets `panicked`  *)
(* and keeps the mutations made before the failing line.  `debug` is the   *)
(* build profile (debug_assert!() is compiled in or out).                  *)
(***************************************************************************)
EXTENDS Integers, Sequences, FiniteSets, TLC

VARIABLES
    cache,      \* MemoryFilesystem.cache : ino -> INode
    trash,      \* MemoryFilesystem.trash : set of ino
    host,       \* the backing directory tree: host inode -> [mode, entries, bytes]
    handles,    \* descriptors returned by open/opendir, not yet released
    fds,        \* the descriptors the daemon has open on the host
    kern,       \* the kernel's side of the protocol: entry replies and forgets per ino
    req,        \* the request the last handler ran for
    reply,      \* what that handler sent on its reply channel
    panicked,   \* the daemon aborted in a handler
    debug       \* build profile: debug assertions compiled in

vars == <<cache, trash, host, handles, fds, kern, req, reply, panicked, debug>>

----------------------------------------------------------------------------
(* Bounds of the model. *)

MaxIno == 3          \* inode numbers the host hands to new objects are 2..MaxIno
MaxRefs == 3         \* entry replies the kernel holds, not yet forgotten, at one time
MaxHandles == 1      \* descriptors handed to the kernel at one time
MaxOffset == 1       \* largest offset of a write or a read
MaxData == 1         \* longest write payload
MaxSize == 2         \* largest size a read or a setattr asks for
MaxDirOffset == 2    \* largest offset of a readdir
MaxTake == 3         \* most entries the kernel takes from one readdir reply

----------------------------------------------------------------------------
(* Program and host constants. *)

FUSE_ROOT_ID == 1
S_IFMT == 61440      \* 0o170000
S_IFDIR == 16384     \* 0o040000
S_IFREG == 32768     \* 0o100000
S_IFLNK == 40960     \* 0o120000
PERM_MASK == 4096    \* Mode::from_bits_truncate keeps the low 12 bits
U16_MAX == 65535
HostUid == 0         \* st_uid of every object of the backing directory

\* short names are byte strings (OsString)
NameA == <<97>>
NameB == <<98>>
NameC == <<99>>
NameHidden == <<46, 104>>
Names == {NameA, NameHidden}           \* the names the kernel asks for

DataBytes == {7}                       \* the bytes the kernel writes
MknodMode == S_IFREG + 420             \* mknod(..., 0o100644, 0)
MkdirMode == 493                       \* mkdir(..., 0o755)

EmptyMap == <<>>
MapRemove(f, k) == [x \in DOMAIN f \ {k} |-> f[x]]
MapPut(f, k, v) == [x \in DOMAIN f \cup {k} |-> IF x = k THEN v ELSE f[x]]

----------------------------------------------------------------------------
(* util: the attribute / type adapter. *)

\* Mode::from_bits_truncate(mode as u16)
parse_mode(mode) == (mode % (U16_MAX + 1)) % PERM_MASK

\* SFlag::from_bits_truncate(flags as u16): the file-type bits
parse_sflag(flags) == ((flags % (U16_MAX + 1)) \div PERM_MASK) * PERM_MASK

\* convert_sflag panics on anything but S_IFDIR / S_IFREG
sflag_supported(sflag) == sflag \in {S_IFDIR, S_IFREG}
convert_sflag(sflag) == IF sflag = S_IFDIR THEN "Directory" ELSE "RegularFile"

\* a conversion that takes every entry for a regular file
convert_node_type_all_files(file_type) == "RegularFile"
\* a conversion that takes every entry for a directory
convert_node_type_all_dirs(file_type) == "Directory"
\* convert_node_type: nix Type -> FileType
convert_node_type(file_type) ==
    IF file_type = "Directory" THEN "Directory" ELSE "RegularFile"

\* d_type the host's directory stream reports for a host inode
host_d_type(node) ==
    CASE parse_sflag(node.mode) = S_IFDIR -> "Directory"
      [] parse_sflag(node.mode) = S_IFREG -> "File"
      [] OTHER -> "Symlink"

\* st_size the host reports: a directory's size is never 0 on the hosts modelled
st_size(node) ==
    IF parse_sflag(node.mode) = S_IFDIR
    THEN 2 + Cardinality(DOMAIN node.entries)
    ELSE Len(node.bytes)

\* util::read_attr(fd) on the host inode the descriptor is open on
read_attr(h, ino) ==
    [ino   |-> ino,
     size  |-> st_size(h[ino]),
     mtime |-> "st_mtime",
     ctime |-> "st_ctime",
     kind  |-> convert_sflag(parse_sflag(h[ino].mode)),
     perm  |-> parse_mode(h[ino].mode),
     uid   |-> HostUid]

----------------------------------------------------------------------------
(* INode. *)

get_type(inode) == IF inode.variant = "DIR" THEN "Directory" ELSE "File"

\* an emptiness test that passes every node
is_empty_always(inode) == TRUE
is_empty(inode) ==
    IF inode.variant = "DIR" THEN DOMAIN inode.data = {} ELSE inode.content = <<>>

need_load_data(inode) ==
    IF ~is_empty(inode) THEN FALSE
    ELSE IF inode.attr.size > 0 THEN TRUE
    ELSE FALSE

\* the first filter of helper_load_dir_data: skip hidden entries, '.' and '..'
not_hidden(name) == ~(Len(name) > 0 /\ name[1] = 46)

\* the second filter of helper_load_dir_data: keep directories and regular files
supported_type(t) == t \in {"Directory", "File"}

\* helper_load_dir_data: the table read from the directory stream of host inode d
helper_load_dir_data(h, d) ==
    LET kept == {n \in DOMAIN h[d].entries :
                    /\ not_hidden(n)
                    /\ supported_type(host_d_type(h[h[d].entries[n]]))}
    IN [n \in kept |-> [ino        |-> h[d].entries[n],
                        name       |-> n,
                        entry_type |-> host_d_type(h[h[d].entries[n]])]]

\* the counters a freshly built DirNode / FileNode starts with
NewLookupCount == 1
NewOpenCount == 1

\* the DirNode built by helper_open_child_dir, after its need_load_data / load
NewDirNode(h, parent, name, ino) ==
    LET node == [variant |-> "DIR", parent |-> parent, name |-> name,
                 attr |-> read_attr(h, ino), data |-> EmptyMap, content |-> <<>>,
                 fd_rw |-> FALSE, fd_pos |-> 0,
                 open_count |-> NewOpenCount, lookup_count |-> NewLookupCount]
    IN IF need_load_data(node)
       THEN [node EXCEPT !.data = helper_load_dir_data(h, ino)]
       ELSE node

\* the FileNode built by helper_open_child_file
NewFileNode(h, parent, name, ino, rw) ==
    [variant |-> "FILE", parent |-> parent, name |-> name,
     attr |-> read_attr(h, ino), data |-> EmptyMap, content |-> <<>>,
     fd_rw |-> rw, fd_pos |-> 0,
     open_count |-> NewOpenCount, lookup_count |-> NewLookupCount]

\* lookup_attr: the visitor replies, then inc_lookup_count
inc_lookup_count(c) == c + 1
\* a forget that drops one reference whatever nlookup is
dec_lookup_count_by_one(c, nlookup) == c - 1
\* dec_lookup_count_by
dec_lookup_count_by(c, nlookup) == c - nlookup

----------------------------------------------------------------------------
(* The host (POSIX surface reached through the descriptors). *)

HostInos == 2 .. MaxIno
FreeInos == HostInos \ DOMAIN host
\* the inode number the host gives a new object
FreshIno == CHOOSE i \in FreeInos : \A j \in FreeInos : i <= j

HostDir(mode, entries) == [mode |-> mode, entries |-> entries, bytes |-> <<>>]
HostFile(mode, bytes) == [mode |-> mode, entries |-> EmptyMap, bytes |-> bytes]

\* an inode stays on the host while a kernel handle is open on it
HostDrop(h, ino) ==
    IF \E x \in handles : x.ino = ino THEN h ELSE MapRemove(h, ino)

\* unlinkat(dirfd of d, name, RemoveDir | NoRemoveDir) succeeds
unlinkat_ok(h, d, name, entry_type) ==
    /\ name \in DOMAIN h[d].entries
    /\ LET c == h[h[d].entries[name]]
       IN IF entry_type = "Directory"
          THEN host_d_type(c) = "Directory" /\ DOMAIN c.entries = {}
          ELSE host_d_type(c) # "Directory"

unlinkat(h, d, name) ==
    HostDrop([h EXCEPT ![d].entries = MapRemove(@, name)], h[d].entries[name])

----------------------------------------------------------------------------
(* Requests and replies. *)

NoAttr == [ino |-> 0, size |-> 0, mtime |-> "", ctime |-> "", kind |-> "none",
           perm |-> 0, uid |-> 0]

\* an Option argument that is None
None == -1

\* page and listed describe the kernel's side of a directory listing: page is
\* the number of this readdir in a listing that began at offset 0 (0 outside
\* one), listed the names the kernel took from the earlier replies of it
Req(op, ino) ==
    [op |-> op, ino |-> ino, name |-> <<>>, mode |-> None, n |-> 0,
     fh |-> 0, offset |-> 0, data |-> <<>>, size |-> None, uid |-> None,
     page |-> 0, listed |-> <<>>]

Rep(kind) ==
    [kind |-> kind, errno |-> "", attr |-> NoAttr, data |-> <<>>, n |-> 0]
NoReply == Rep("none")
ReplyOk == Rep("ok")
ReplyError(e) == [Rep("error") EXCEPT !.errno = e]
ReplyEntry(attr) == [Rep("entry") EXCEPT !.attr = attr]

\* kern[ino].refs is the kernel's nlookup for ino: the entry replies it received
\* for ino (lookup, mknod, mkdir) minus the sum of n over its forget(ino, n);
\* kern[ino].made tells an i-node created by mknod / mkdir from one that a
\* lookup materialised
NewRefs(made) == [made |-> made, refs |-> 1]
NoRefs == [made |-> FALSE, refs |-> 0]
RECURSIVE SumRefs(_, _)
SumRefs(k, S) ==
    IF S = {} THEN 0
    ELSE LET i == CHOOSE x \in S : TRUE IN k[i].refs + SumRefs(k, S \ {i})
\* the kernel can take one more entry reply
RefsBelowBound == SumRefs(kern, DOMAIN kern) < MaxRefs

\* the descriptor an i-node holds on its host object (FileNode.fd, DirNode.dir_fd)
InodeFd(ino) == [owner |-> "inode", ino |-> ino, fh |-> 0]
\* the descriptor dup_fd made for a handle
HandleFd(fh, ino) == [owner |-> "handle", ino |-> ino, fh |-> fh]
\* openat / dup: one more open descriptor
fd_open(f, d) == f \cup {d}
\* a close that leaves the descriptor open
fd_close_leak(f, d) == f
\* unistd::close, closedir
fd_close(f, d) == f \ {d}

\* a handler aborts: the daemon stops with the state it had at the failing line
Panic(c, t, h) ==
    /\ cache' = c
    /\ trash' = t
    /\ host' = h
    /\ panicked' = TRUE
    /\ reply' = NoReply
    /\ UNCHANGED <<handles, fds, kern, debug>>

\* a handler returns on such a path without completing its reply
ReplyOnly_silent(r) ==
    /\ reply' = NoReply
    /\ UNCHANGED <<cache, trash, host, handles, fds, kern, panicked, debug>>

\* a handler replies without touching the engine
ReplyOnly(r) ==
    /\ reply' = r
    /\ UNCHANGED <<cache, trash, host, handles, fds, kern, panicked, debug>>

----------------------------------------------------------------------------
(* MemoryFilesystem: startup. *)

\* the backing directory before the mount
HostEmptyRoot == FUSE_ROOT_ID :> HostDir(S_IFDIR + 493, EmptyMap)

HostPopulatedRoot ==
    (FUSE_ROOT_ID :> HostDir(S_IFDIR + 493,
                        (NameA :> 12) @@ (NameHidden :> 14)))
    @@ (12 :> HostDir(S_IFDIR + 493, (NameA :> 13) @@ (NameB :> 15)))
    @@ (13 :> HostFile(S_IFREG + 420, <<5, 6>>))
    @@ (14 :> HostFile(S_IFREG + 420, <<>>))
    @@ (15 :> HostFile(S_IFLNK + 511, <<>>))

HostLayouts == {HostEmptyRoot, HostPopulatedRoot}

\* INode::open_root_inode
open_root_inode(h) ==
    NewDirNode(h, FUSE_ROOT_ID, <<47>>, FUSE_ROOT_ID)

Init ==
    /\ debug \in BOOLEAN
    /\ host \in HostLayouts
    /\ cache = (FUSE_ROOT_ID :> open_root_inode(host))
    /\ trash = {}
    /\ handles = {}
    /\ fds = {InodeFd(FUSE_ROOT_ID)}
    /\ kern = (FUSE_ROOT_ID :> NoRefs)
    /\ req = Req("init", 0)
    /\ reply = NoReply
    /\ panicked = FALSE

----------------------------------------------------------------------------
(* MemoryFilesystem::helper_create_node (mknod, mkdir). *)

\* what mkdirat / openat(O_CREAT | O_EXCL | O_RDWR) leave on the host
create_child_dir_mode(mflags) == S_IFDIR + mflags
create_child_file_mode(mflags) == S_IFREG + 0

HostCreate(h, parent, name, ino, node_type, mflags) ==
    [x \in DOMAIN h \cup {ino} |->
        IF x = ino
        THEN IF node_type = "Directory"
             THEN HostDir(create_child_dir_mode(mflags), EmptyMap)
             ELSE HostFile(create_child_file_mode(mflags), <<>>)
        ELSE IF x = parent
        THEN [h[x] EXCEPT !.entries = MapPut(@, name, ino)]
        ELSE h[x]]

helper_create_node(parent, node_name, mode, node_type) ==
    /\ ~panicked
    /\ parent \in DOMAIN cache
    /\ cache[parent].variant = "DIR"
    /\ req' = [Req(IF node_type = "File" THEN "mknod" ELSE "mkdir", parent)
                 EXCEPT !.name = node_name, !.mode = mode]
    /\ IF node_name \in DOMAIN cache[parent].data
       THEN ReplyOnly(ReplyError("EEXIST"))
       ELSE IF node_name \in DOMAIN host[parent].entries
       THEN Panic(cache, trash, host)      \* the host call fails: expect()
       ELSE /\ FreeInos # {}
            /\ RefsBelowBound
            /\ LET new_ino == FreshIno
                   mflags == parse_mode(mode)
                   h1 == HostCreate(host, parent, node_name, new_ino, node_type, mflags)
                   pino == cache[parent].attr.ino
                   new_inode ==
                       IF node_type = "Directory"
                       THEN NewDirNode(h1, pino, node_name, new_ino)
                       ELSE NewFileNode(h1, pino, node_name, new_ino, TRUE)
                   entry == [ino |-> new_inode.attr.ino, name |-> node_name,
                             entry_type |-> node_type]
               IN /\ host' = h1
                  /\ cache' = [x \in DOMAIN cache \cup {new_ino} |->
                                 IF x = new_ino THEN new_inode
                                 ELSE IF x = parent
                                 THEN [cache[x] EXCEPT !.data = MapPut(@, node_name, entry)]
                                 ELSE cache[x]]
                  /\ kern' = MapPut(kern, new_ino, NewRefs(TRUE))
                  /\ fds' = fd_open(fds, InodeFd(new_ino))
                  /\ reply' = ReplyEntry(new_inode.attr)
                  /\ UNCHANGED <<trash, handles, panicked, debug>>

mknod(parent, name, mode) == helper_create_node(parent, name, mode, "File")
mkdir(parent, name, mode) == helper_create_node(parent, name, mode, "Directory")

----------------------------------------------------------------------------
(* MemoryFilesystem::lookup. *)

lookup(parent, name) ==
    /\ ~panicked
    /\ parent \in DOMAIN cache
    /\ cache[parent].variant = "DIR"
    /\ req' = [Req("lookup", parent) EXCEPT !.name = name]
    /\ IF name \notin DOMAIN cache[parent].data
       THEN ReplyOnly(ReplyError("ENOENT"))
       ELSE LET child_entry == cache[parent].data[name]
                ino == child_entry.ino
                child_type == convert_node_type(child_entry.entry_type)
            IN IF ino \in DOMAIN cache
               THEN \* cache hit: lookup_attr on the cached i-node
                    /\ RefsBelowBound
                    /\ reply' = ReplyEntry(cache[ino].attr)
                    /\ cache' = [cache EXCEPT
                                   ![ino].lookup_count = inc_lookup_count(@)]
                    /\ kern' = [kern EXCEPT ![ino].refs = @ + 1]
                    /\ UNCHANGED <<trash, host, handles, fds, panicked, debug>>
               ELSE IF name \notin DOMAIN host[parent].entries
               THEN Panic(cache, trash, host)      \* openat fails: expect()
               ELSE \* cache miss: open the child through the parent, lookup_attr, install
                    LET child_ino == host[parent].entries[name]
                        pino == cache[parent].attr.ino
                        child_inode ==
                            IF child_type = "Directory"
                            THEN NewDirNode(host, pino, name, child_ino)
                            ELSE NewFileNode(host, pino, name, child_ino, FALSE)
                    IN /\ RefsBelowBound
                       /\ reply' = ReplyEntry(child_inode.attr)
                       /\ cache' = MapPut(cache, child_ino,
                                     [child_inode EXCEPT
                                        !.lookup_count = inc_lookup_count(@)])
                       /\ kern' = MapPut(kern, child_ino, NewRefs(FALSE))
                       /\ fds' = fd_open(fds, InodeFd(child_ino))
                       /\ UNCHANGED <<trash, host, handles, panicked, debug>>

----------------------------------------------------------------------------
(* MemoryFilesystem::helper_unlink_node_by_ino. *)

\* the expect()s of helper_unlink_node_by_ino, helper_get_parent_inode and
\* unlink_entry all pass
unlink_node_ok(c, h, ino) ==
    /\ ino \in DOMAIN c
    /\ c[ino].parent \in DOMAIN c
    /\ c[c[ino].parent].variant = "DIR"
    /\ c[ino].name \in DOMAIN c[c[ino].parent].data
    /\ unlinkat_ok(h, c[ino].parent, c[ino].name,
                   c[c[ino].parent].data[c[ino].name].entry_type)

\* an unlink_entry that leaves the entry in the table
unlink_entry_keeps(data, child_name) == data
\* the parent's table after unlink_entry
unlink_entry(data, child_name) == MapRemove(data, child_name)

\* a helper_unlink_node_by_ino that drops the parent's i-node, not the child's
unlink_node_cache_parent(c, ino) ==
    MapRemove([c EXCEPT ![c[ino].parent].data = unlink_entry(@, c[ino].name)],
              c[ino].parent)
\* a helper_unlink_node_by_ino that drops the entry and keeps the i-node
unlink_node_cache_entry_only(c, ino) ==
    [c EXCEPT ![c[ino].parent].data = unlink_entry(@, c[ino].name)]
\* the i-node table after helper_unlink_node_by_ino
unlink_node_cache(c, ino) ==
    MapRemove([c EXCEPT ![c[ino].parent].data = unlink_entry(@, c[ino].name)], ino)

\* the host after helper_unlink_node_by_ino
unlink_node_host(c, h, ino) == unlinkat(h, c[ino].parent, c[ino].name)

----------------------------------------------------------------------------
(* MemoryFilesystem::helper_remove_node (unlink, rmdir). *)

\* the debug_assert_eq!()s on the child found under the parent
remove_asserts(child_inode, parent, node_ino, node_name, node_type) ==
    /\ node_ino = child_inode.attr.ino
    /\ node_name = child_inode.name
    /\ parent = child_inode.parent
    /\ node_type = get_type(child_inode)
    /\ convert_node_type(node_type) = child_inode.attr.kind

\* a deferral that also takes an i-node nobody refers to
defered_deletion_always(inode) == inode.lookup_count >= 0
\* the removal is deferred while the kernel still refers to the i-node
defered_deletion(inode) == inode.lookup_count > 0

helper_remove_node(parent, node_name, node_type) ==
    /\ ~panicked
    /\ parent \in DOMAIN cache
    /\ cache[parent].variant = "DIR"
    /\ req' = [Req(IF node_type = "File" THEN "unlink" ELSE "rmdir", parent)
                 EXCEPT !.name = node_name]
    /\ IF node_name \notin DOMAIN cache[parent].data
       THEN ReplyOnly(ReplyError("ENOENT"))
       ELSE LET node_ino == cache[parent].data[node_name].ino
                node_kind == convert_node_type(node_type)
            IN IF node_ino \notin DOMAIN cache
               THEN Panic(cache, trash, host)      \* no i-node for the entry: expect()
               ELSE IF node_kind = "Directory" /\ ~is_empty(cache[node_ino])
               THEN ReplyOnly(ReplyError("ENOTEMPTY"))
               ELSE IF debug /\ ~remove_asserts(cache[node_ino], parent, node_ino,
                                                node_name, node_type)
               THEN Panic(cache, trash, host)
               ELSE IF debug /\ cache[node_ino].lookup_count < 0
               THEN Panic(cache, trash, host)
               ELSE IF defered_deletion(cache[node_ino])
               THEN IF debug /\ node_ino \in trash
                    THEN Panic(cache, trash, host)  \* debug_assert!(insert_result)
                    ELSE /\ trash' = trash \cup {node_ino}
                         /\ reply' = ReplyOk
                         /\ UNCHANGED <<cache, host, handles, fds, kern, panicked, debug>>
               ELSE IF ~unlink_node_ok(cache, host, node_ino)
               THEN Panic(cache, trash, host)
               ELSE /\ cache' = unlink_node_cache(cache, node_ino)
                    /\ host' = unlink_node_host(cache, host, node_ino)
                    /\ kern' = MapRemove(kern, node_ino)
                    /\ fds' = fd_close(fds, InodeFd(node_ino))   \* the INode is dropped
                    /\ reply' = ReplyOk
                    /\ UNCHANGED <<trash, handles, panicked, debug>>

unlink(parent, name) == helper_remove_node(parent, name, "File")
rmdir(parent, name) == helper_remove_node(parent, name, "Directory")

----------------------------------------------------------------------------
(* MemoryFilesystem::forget. *)

forget(ino, nlookup) ==
    /\ ~panicked
    /\ ino \in DOMAIN cache
    /\ nlookup \in 1 .. kern[ino].refs
    /\ req' = [Req("forget", ino) EXCEPT !.n = nlookup]
    /\ LET c1 == [cache EXCEPT
                    ![ino].lookup_count = dec_lookup_count_by(@, nlookup)]
           current_count == c1[ino].lookup_count
           k1 == [kern EXCEPT ![ino].refs = @ - nlookup]
       IN IF debug /\ current_count < 0
          THEN Panic(c1, trash, host)
          ELSE IF current_count = 0 /\ ino \in trash
          THEN \* deferred deletion
               IF ~unlink_node_ok(c1, host, ino)
               THEN Panic(c1, trash, host)
               ELSE /\ cache' = unlink_node_cache(c1, ino)
                    /\ host' = unlink_node_host(c1, host, ino)
                    /\ trash' = trash \ {ino}
                    /\ kern' = MapRemove(kern, ino)
                    /\ fds' = fd_close(fds, InodeFd(ino))        \* the INode is dropped
                    /\ reply' = NoReply
                    /\ UNCHANGED <<handles, panicked, debug>>
          ELSE /\ cache' = c1
               /\ kern' = k1
               /\ reply' = NoReply
               /\ UNCHANGED <<trash, host, handles, fds, panicked, debug>>

----------------------------------------------------------------------------
(* MemoryFilesystem::getattr. *)

getattr(ino) ==
    /\ ~panicked
    /\ req' = Req("getattr", ino)
    /\ IF ino \notin DOMAIN cache
       THEN Panic(cache, trash, host)      \* expect(): the i-node should be in cache
       ELSE ReplyOnly([Rep("attr") EXCEPT !.attr = cache[ino].attr])

----------------------------------------------------------------------------
(* MemoryFilesystem::open / opendir / release / releasedir. *)

\* the descriptor number dup() returns
FreeHandles == (1 .. MaxHandles) \ {x.fh : x \in handles}
FreshHandle == CHOOSE f \in FreeHandles : \A g \in FreeHandles : f <= g

inc_open_count(c) == c + 1
\* a release that takes two from the counter
dec_open_count_twice(c) == c - 2
dec_open_count(c) == c - 1

\* dup_fd: dup(), then dup3() onto the new number, then inc_open_count; the
\* handle shares the open file description (access mode, offset) of the
\* i-node's own descriptor
open(ino, flags) ==
    /\ ~panicked
    /\ ino \in DOMAIN cache
    /\ FreeHandles # {}
    /\ req' = [Req(IF cache[ino].variant = "DIR" THEN "opendir" ELSE "open", ino)
                 EXCEPT !.mode = flags]
    /\ handles' = handles \cup {[fh |-> FreshHandle, ino |-> ino]}
    /\ fds' = fd_open(fds, HandleFd(FreshHandle, ino))
    /\ cache' = [cache EXCEPT ![ino].open_count = inc_open_count(@)]
    /\ reply' = [Rep("opened") EXCEPT !.n = FreshHandle]
    /\ UNCHANGED <<trash, host, kern, panicked, debug>>

\* closing the last descriptor of an unlinked host inode frees it
HostClose(h, hs, ino) ==
    IF /\ ino \in DOMAIN h
       /\ ino \notin DOMAIN cache
       /\ ~\E x \in hs : x.ino = ino
    THEN MapRemove(h, ino)
    ELSE h

release(ino, fh) ==
    /\ ~panicked
    /\ [fh |-> fh, ino |-> ino] \in handles
    /\ req' = [Req("release", ino) EXCEPT !.fh = fh]
    /\ IF ino \notin DOMAIN cache
       THEN Panic(cache, trash, host)      \* expect(): the i-node should be in cache
       ELSE /\ handles' = handles \ {[fh |-> fh, ino |-> ino]}
            /\ fds' = fd_close(fds, HandleFd(fh, ino))       \* unistd::close(fh)
            /\ host' = HostClose(host, handles', ino)
            /\ reply' = ReplyOk
            /\ cache' = [cache EXCEPT ![ino].open_count = dec_open_count(@)]
            /\ UNCHANGED <<trash, kern, panicked, debug>>

----------------------------------------------------------------------------
(* INode::write_file and MemoryFilesystem::write. *)

Zeros(k) == [i \in 1 .. k |-> 0]
Min(a, b) == IF a < b THEN a ELSE b
Max(a, b) == IF a > b THEN a ELSE b

\* a write_file that forgets extend_from_slice
write_buffer_no_extend(file_data, offset, data) ==
    IF Len(file_data) > offset THEN SubSeq(file_data, 1, offset)
    ELSE file_data \o Zeros(offset - Len(file_data))
\* the content buffer after truncate / zero padding and extend_from_slice
write_buffer(file_data, offset, data) ==
    LET cut == IF Len(file_data) > offset
               THEN SubSeq(file_data, 1, offset)                 \* truncate
               ELSE IF Len(file_data) < offset
               THEN file_data \o Zeros(offset - Len(file_data))   \* zero padding
               ELSE file_data
    IN cut \o data

\* the host file after pwrite(fd, data, offset): bytes outside the written
\* range stay, a hole reads as zeros
pwrite(bytes, data, offset) ==
    LET n == IF data = <<>> THEN Len(bytes)
             ELSE Max(Len(bytes), offset + Len(data))
    IN [i \in 1 .. n |->
          IF i > offset /\ i <= offset + Len(data) THEN data[i - offset]
          ELSE IF i <= Len(bytes) THEN bytes[i]
          ELSE 0]

write(ino, fh, offset, data) ==
    /\ ~panicked
    /\ [fh |-> fh, ino |-> ino] \in handles
    /\ req' = [Req("write", ino) EXCEPT !.fh = fh, !.offset = offset, !.data = data]
    /\ IF ino \notin DOMAIN cache
       THEN Panic(cache, trash, host)      \* expect(): the i-node should be in cache
       ELSE /\ cache[ino].variant = "FILE"
            /\ LET c1 == [cache EXCEPT
                            ![ino].content = write_buffer(@, offset, data)]
               IN IF ~cache[ino].fd_rw
                  THEN Panic(c1, trash, host)   \* pwrite fails with EBADF: expect()
                  ELSE /\ host' = [host EXCEPT ![ino].bytes = pwrite(@, data, offset)]
                       /\ cache' = [c1 EXCEPT
                                       ![ino].attr.size = Len(c1[ino].content),
                                       ![ino].attr.mtime = "now"]
                       /\ reply' = [Rep("written") EXCEPT !.n = Len(data)]
                       /\ UNCHANGED <<trash, handles, fds, kern, panicked, debug>>

----------------------------------------------------------------------------
(* INode::read_file and MemoryFilesystem::read. *)

\* helper_load_file_data: one read() at the descriptor's offset into a buffer
\* of `capacity` bytes
helper_load_file_data(bytes, fd_pos, capacity) ==
    IF fd_pos >= Len(bytes) THEN <<>>
    ELSE SubSeq(bytes, fd_pos + 1, Min(Len(bytes), fd_pos + capacity))

\* reserve(file_size) on the empty vector leaves at least file_size bytes
Capacities(file_size) == {file_size, file_size + MaxSize}

\* read_helper
read_in_range(content, offset) == offset < Len(content)
read_data(content, offset, size) ==
    IF offset + size < Len(content)
    THEN SubSeq(content, offset + 1, offset + size)
    ELSE SubSeq(content, offset + 1, Len(content))

read(ino, fh, offset, size) ==
    /\ ~panicked
    /\ [fh |-> fh, ino |-> ino] \in handles
    /\ req' = [Req("read", ino) EXCEPT !.fh = fh, !.offset = offset, !.size = size]
    /\ IF ino \notin DOMAIN cache
       THEN Panic(cache, trash, host)      \* expect(): the i-node should be in cache
       ELSE /\ cache[ino].variant = "FILE"
            /\ \E capacity \in Capacities(cache[ino].attr.size) :
                 LET inode == cache[ino]
                     loaded == helper_load_file_data(host[ino].bytes, inode.fd_pos,
                                                     capacity)
                     c1 == IF need_load_data(inode)
                           THEN [cache EXCEPT
                                   ![ino].content = loaded,
                                   ![ino].fd_pos = @ + Len(loaded)]
                           ELSE cache
                     content == c1[ino].content
                 IN IF /\ debug
                       /\ need_load_data(inode)
                       /\ Len(loaded) # inode.attr.size
                    THEN Panic(c1, trash, host)    \* debug_assert_eq!(len, file_size)
                    ELSE /\ cache' = c1
                         /\ reply' = IF read_in_range(content, offset)
                                      THEN [Rep("data") EXCEPT
                                              !.data = read_data(content, offset, size)]
                                      ELSE ReplyError("EINVAL")
                         /\ UNCHANGED <<trash, host, handles, fds, kern, panicked, debug>>

----------------------------------------------------------------------------
(* INode::read_dir and MemoryFilesystem::readdir. *)

\* the order of OsString keys in the BTreeMap: bytewise lexicographic
name_less(a, b) ==
    \E i \in 1 .. (Len(a) + 1) :
        /\ \A j \in 1 .. (i - 1) : j <= Len(b) /\ a[j] = b[j]
        /\ IF i > Len(a) THEN i <= Len(b)
           ELSE i <= Len(b) /\ a[i] < b[i]

\* the position (from 0) of a key in data.iter()
ordinal(data, name) == Cardinality({m \in DOMAIN data : name_less(m, name)})

\* data.iter(): the entries in key order
iter(data) ==
    [i \in 1 .. Cardinality(DOMAIN data) |->
        data[CHOOSE n \in DOMAIN data : ordinal(data, n) = i - 1]]

\* readdir_helper: data.iter().enumerate().skip(offset), each kept entry added
\* with offset + i + 1 where i is its index given by enumerate()
readdir_helper(data, offset) ==
    LET all == iter(data)
    IN [j \in 1 .. Max(0, Len(all) - offset) |->
          LET i == offset + j - 1
          IN [ino         |-> all[i + 1].ino,
              next_offset |-> offset + i + 1,
              kind        |-> convert_node_type(all[i + 1].entry_type),
              name        |-> all[i + 1].name]]

\* the handler serving the readdir request r
readdir_serve(r) ==
    /\ ~panicked
    /\ req' = r
    /\ IF r.ino \notin DOMAIN cache
       THEN Panic(cache, trash, host)      \* expect(): the i-node should be in cache
       ELSE /\ cache[r.ino].variant = "DIR"
            /\ LET inode == cache[r.ino]
                   c1 == IF need_load_data(inode)
                         THEN [cache EXCEPT
                                 ![r.ino].data = helper_load_dir_data(host, r.ino)]
                         ELSE cache
               IN /\ cache' = c1
                  /\ reply' = [Rep("dir") EXCEPT
                                  !.data = readdir_helper(c1[r.ino].data, r.offset)]
                  /\ UNCHANGED <<trash, host, handles, fds, kern, panicked, debug>>

readdir(ino, fh, offset) ==
    readdir_serve([Req("readdir", ino) EXCEPT
                      !.fh = fh, !.offset = offset,
                      !.page = IF offset = 0 THEN 1 ELSE 0])

\* the kernel goes on with a listing: of the entries the handler added to the
\* last reply it took the first `take` (the reply buffer held no more), and
\* it asks again with the next_offset of the last entry it took
readdir_next(take) ==
    /\ req.op = "readdir"
    /\ req.page > 0
    /\ reply.kind = "dir"
    /\ take \in 1 .. Len(reply.data)
    /\ readdir_serve([req EXCEPT
                         !.offset = reply.data[take].next_offset,
                         !.page = @ + 1,
                         !.listed = @ \o [j \in 1 .. take |-> reply.data[j].name]])

----------------------------------------------------------------------------
(* MemoryFilesystem::setattr. *)

\* a setattr_helper that stamps ctime before it looks at the fields
setattr_fields_stamp(attr, mode, uid, size) == [attr EXCEPT !.ctime = "now"]
\* setattr_helper: the attributes after the closure ran to its reply
setattr_fields(attr, mode, uid, size) ==
    [attr EXCEPT
        !.perm = IF mode # None THEN parse_mode(mode) ELSE @,
        !.uid  = IF uid # None THEN uid ELSE @,
        !.size = IF size # None THEN size ELSE @]

\* a setattr that takes every call for a change
setattr_any_always(mode, uid, size, chgtime) == TRUE
setattr_any(mode, uid, size, chgtime) ==
    mode # None \/ uid # None \/ size # None \/ chgtime

setattr(ino, mode, uid, size, chgtime) ==
    /\ ~panicked
    /\ ino \in DOMAIN cache
    /\ req' = [Req("setattr", ino) EXCEPT
                  !.mode = mode, !.uid = uid, !.size = size,
                  !.n = IF chgtime THEN 1 ELSE 0]
    /\ LET attr == cache[ino].attr
           a1 == setattr_fields(attr, mode, uid, size)
       IN IF mode # None /\ ~sflag_supported(parse_sflag(mode))
          THEN \* convert_sflag panics after perm was overwritten
               Panic([cache EXCEPT ![ino].attr.perm = parse_mode(mode)], trash, host)
          ELSE IF /\ debug
                  /\ mode # None
                  /\ convert_sflag(parse_sflag(mode)) # attr.kind
          THEN Panic([cache EXCEPT ![ino].attr.perm = parse_mode(mode)], trash, host)
          ELSE IF setattr_any(mode, uid, size, chgtime)
          THEN /\ cache' = [cache EXCEPT ![ino].attr = [a1 EXCEPT !.ctime = "now"]]
               /\ reply' = [Rep("attr") EXCEPT !.attr = cache'[ino].attr]
               /\ UNCHANGED <<trash, host, handles, fds, kern, panicked, debug>>
          ELSE /\ cache' = [cache EXCEPT ![ino].attr = a1]
               /\ reply' = ReplyError("ENODATA")
               /\ UNCHANGED <<trash, host, handles, fds, kern, panicked, debug>>

----------------------------------------------------------------------------
(* The namespace engine under the kernel's requests. *)

Dirs == {i \in DOMAIN cache : cache[i].variant = "DIR"}

Next ==
    \/ \E p \in Dirs, n \in Names : mknod(p, n, MknodMode)
    \/ \E p \in Dirs, n \in Names : mkdir(p, n, MkdirMode)
    \/ \E p \in Dirs, n \in Names : lookup(p, n)
    \/ \E p \in Dirs, n \in Names : unlink(p, n)
    \/ \E p \in Dirs, n \in Names : rmdir(p, n)
    \/ \E i \in DOMAIN cache, k \in 1 .. MaxRefs : forget(i, k)

Spec == Init /\ [][Next]_vars

----------------------------------------------------------------------------
(* The file-content engine: one file name, its handles, writes, reads and      *)
(* attribute changes.                                                        *)

Files == {i \in DOMAIN cache : cache[i].variant = "FILE"}
Payloads == UNION {[1 .. k -> DataBytes] : k \in 0 .. MaxData}
SetattrModes == {None, 384, S_IFREG + 384}     \* absent, 0o600, 0o100600

NextData ==
    \/ \E p \in Dirs : mknod(p, NameA, MknodMode)
    \/ \E p \in Dirs : lookup(p, NameA)
    \/ \E i \in Files : open(i, 0)
    \/ \E h \in handles : release(h.ino, h.fh)
    \/ \E h \in handles, o \in 0 .. MaxOffset, d \in Payloads : write(h.ino, h.fh, o, d)
    \/ \E h \in handles, o \in 0 .. MaxOffset, z \in 0 .. MaxSize : read(h.ino, h.fh, o, z)
    \/ \E i \in Files, m \in SetattrModes, z \in {None} \cup (0 .. MaxSize),
          t \in BOOLEAN : setattr(i, m, None, z, t)

SpecData == Init /\ [][NextData]_vars

----------------------------------------------------------------------------
(* The directory listing under mknod, mkdir, lookup, unlink and readdir. *)

NextDir ==
    \/ \E p \in Dirs, n \in Names : mknod(p, n, MknodMode)
    \/ \E p \in Dirs, n \in Names : mkdir(p, n, MkdirMode)
    \/ \E p \in Dirs, n \in Names : lookup(p, n)
    \/ \E p \in Dirs, n \in Names : unlink(p, n)
    \/ \E d \in Dirs, o \in 0 .. MaxDirOffset : readdir(d, 0, o)

SpecDir == Init /\ [][NextDir]_vars

----------------------------------------------------------------------------
(* Every handler, on one name, with handles held across removals. *)

NextHandles ==
    \/ \E p \in Dirs : mknod(p, NameA, MknodMode)
    \/ \E p \in Dirs : mkdir(p, NameA, MkdirMode)
    \/ \E p \in Dirs : lookup(p, NameA)
    \/ \E p \in Dirs : unlink(p, NameA)
    \/ \E p \in Dirs : rmdir(p, NameA)
    \/ \E i \in DOMAIN cache, k \in 1 .. MaxRefs : forget(i, k)
    \/ \E i \in DOMAIN cache : getattr(i)
    \/ \E i \in DOMAIN cache : open(i, 0)
    \/ \E h \in handles : release(h.ino, h.fh)
    \/ \E h \in handles : write(h.ino, h.fh, 0, <<7>>)
    \/ \E h \in handles : read(h.ino, h.fh, 0, 1)
    \/ \E i \in DOMAIN cache, z \in {None, 1} : setattr(i, None, None, z, FALSE)
    \/ \E d \in Dirs : readdir(d, 0, 0)

SpecHandles == Init /\ [][NextHandles]_vars

----------------------------------------------------------------------------
(* A directory of up to three entries listed page by page. *)

PageNames == {NameA, NameB, NameC}

NextPage ==
    \/ \E p \in Dirs, n \in PageNames : mknod(p, n, MknodMode)
    \/ \E p \in Dirs, n \in PageNames : mkdir(p, n, MkdirMode)
    \/ \E d \in Dirs : readdir(d, 0, 0)
    \/ \E take \in 1 .. MaxTake : readdir_next(take)

SpecPage == Init /\ [][NextPage]_vars

----------------------------------------------------------------------------
(* Properties. *)

RemoveOps == {"unlink", "rmdir"}
ReqType(r) == IF r.op = "rmdir" THEN "Directory" ELSE "File"

\* the child a remove request names, when the parent's table holds the name
RemoveChild(r) == cache[r.ino].data[r.name].ino

\* steps 1-3 of remove pass: the name is in the parent's table, its i-node is
\* in the i-node table with the variant the handler is for, and a directory
\* to remove has an empty table
RemoveChecksPass(r) ==
    /\ r.op \in RemoveOps
    /\ r.name \in DOMAIN cache[r.ino].data
    /\ RemoveChild(r) \in DOMAIN cache
    /\ get_type(cache[RemoveChild(r)]) = ReqType(r)
    /\ (ReqType(r) = "Directory" => is_empty(cache[RemoveChild(r)]))

\* C1: forget(ino, n) lowers lookup_count by n; when the result is 0 and ino is
\* in the trash, the same step unlinks the host name, drops the parent's entry,
\* drops the i-node from the table and ino from the trash; otherwise the step
\* changes nothing but the lookup_count.
C1_ForgetContract ==
    [][req'.op = "forget" =>
        LET ino == req'.ino
            after == cache[ino].lookup_count - req'.n
            p == cache[ino].parent
        IN IF after = 0 /\ ino \in trash
           THEN /\ ino \notin DOMAIN cache'
                /\ ino \notin trash'
                /\ trash' = trash \ {ino}
                /\ cache[ino].name \notin DOMAIN cache'[p].data
                /\ cache[ino].name \notin DOMAIN host'[p].entries
           ELSE /\ cache' = [cache EXCEPT ![ino].lookup_count = after]
                /\ trash' = trash
                /\ host' = host
                /\ handles' = handles]_vars

\* C2: unlink/rmdir of a child whose lookup_count > 0 replies ok and changes
\* only the trash (the child's ino is added): the i-node table with every
\* directory table and every counter, the host and the handles are unchanged.
C2_DeferredRemoveOnlyTrash ==
    [][(RemoveChecksPass(req') /\ cache[RemoveChild(req')].lookup_count > 0) =>
        /\ reply' = ReplyOk
        /\ trash' = trash \cup {RemoveChild(req')}
        /\ cache' = cache
        /\ host' = host
        /\ handles' = handles]_vars

\* C3: in every reachable state the lookup_count of every i-node (the root
\* aside, which no entry reply names) equals the entry replies issued for it
\* minus the total forgotten, whether mknod/mkdir created it or a lookup
\* cache miss materialised it.
C3_LookupCountIsRefs ==
    ~panicked =>
        \A i \in DOMAIN cache \ {FUSE_ROOT_ID} : cache[i].lookup_count = kern[i].refs

\* C4: for an i-node that only lookups and forgets ever named (a lookup
\* materialised it), lookup_count equals the successful lookups minus the sum
\* of n over the forgets.
C4_LookupsMinusForgets ==
    ~panicked =>
        \A i \in DOMAIN cache \ {FUSE_ROOT_ID} :
            ~kern[i].made => cache[i].lookup_count = kern[i].refs

\* C5: the trash is a subset of the i-node table in every reachable state, and
\* every ino a step puts in the trash is in the table with lookup_count > 0.
C5_TrashInTable ==
    /\ [](trash \subseteq DOMAIN cache)
    /\ [][\A i \in trash' \ trash :
             i \in DOMAIN cache /\ cache[i].lookup_count > 0]_vars

C5_Witness ==
    /\ ~panicked
    /\ req.op \in RemoveOps
    /\ reply = ReplyOk
    /\ \E i \in trash : cache[i].lookup_count > 0

\* the kernel holds the mknod reply and two lookup replies for the file ino of
\* the root directory, and its unlink was deferred
C6_Scenario(ino) ==
    /\ ino \in trash
    /\ cache[ino].variant = "FILE"
    /\ cache[ino].parent = FUSE_ROOT_ID
    /\ kern[ino].made
    /\ kern[ino].refs = 3

C7_ParentInTable ==
    \A i \in DOMAIN cache \ {FUSE_ROOT_ID} :
        /\ cache[i].parent \in DOMAIN cache
        /\ cache[cache[i].parent].variant = "DIR"

\* a node was created under a directory whose removal is deferred
C7_Witness ==
    /\ ~panicked
    /\ \E i \in DOMAIN cache \ {FUSE_ROOT_ID} :
          /\ cache[i].parent \in trash
          /\ kern[i].made
          /\ cache[i].name \in DOMAIN cache[cache[i].parent].data

\* C8 as claimed: every entry of every directory table has its ino in the
\* table or in the trash, and its kind matches the variant of that i-node.
C8_EntryInTableOrTrash ==
    \A d \in Dirs : \A n \in DOMAIN cache[d].data :
        LET e == cache[d].data[n]
        IN /\ e.ino \in DOMAIN cache \cup trash
           /\ e.ino \in DOMAIN cache => get_type(cache[e.ino]) = e.entry_type

\* C8 amended: every entry of every directory table either has its ino in the
\* table, with the variant and the attribute kind its entry kind names, or is
\* an entry read from the host directory whose i-node no lookup has
\* materialised yet: its ino is neither in the table nor in the trash, and the
\* host holds an object of that kind under that name.
C8_EntryKindMatches ==
    \A d \in Dirs : \A n \in DOMAIN cache[d].data :
        LET e == cache[d].data[n]
        IN IF e.ino \in DOMAIN cache
           THEN /\ get_type(cache[e.ino]) = e.entry_type
                /\ cache[e.ino].attr.kind = convert_sflag(
                       IF e.entry_type = "Directory" THEN S_IFDIR ELSE S_IFREG)
           ELSE /\ e.ino \notin trash
                /\ n \in DOMAIN host[d].entries
                /\ host[d].entries[n] = e.ino
                /\ host_d_type(host[e.ino]) = e.entry_type

\* a lazily populated directory was materialised by a lookup and holds an
\* entry whose i-node is not in the table, next to entries that are
C8_Witness ==
    /\ ~panicked
    /\ \E d \in Dirs \ {FUSE_ROOT_ID} :
          /\ ~kern[d].made
          /\ cache[cache[d].parent].data[cache[d].name].ino = d
          /\ \E n \in DOMAIN cache[d].data : cache[d].data[n].ino \notin DOMAIN cache

\* C9: a regular file whose content counts as loaded (need_load is false) has
\* attr.size equal to the length of its content buffer.
C9_SizeIsBufferLen ==
    ~panicked =>
        \A i \in Files :
            ~need_load_data(cache[i]) => cache[i].attr.size = Len(cache[i].content)

CreateOps == {"mknod", "mkdir"}

\* C11: mknod/mkdir(parent, name) replies EEXIST exactly when the parent's
\* table holds the name; otherwise it creates the host object, inserts
\* (new ino, name, kind) in the parent's table, installs a new i-node of the
\* requested kind with that parent and name, and replies with its attributes.
C11_CreateContract ==
    [][req'.op \in CreateOps =>
        LET p == req'.ino
            n == req'.name
            t == IF req'.op = "mknod" THEN "File" ELSE "Directory"
        IN IF n \in DOMAIN cache[p].data
           THEN reply' = ReplyError("EEXIST")
           ELSE /\ reply'.kind = "entry"
                /\ reply'.attr.ino \notin DOMAIN cache
                /\ reply'.attr.ino \in DOMAIN cache'
                /\ get_type(cache'[reply'.attr.ino]) = t
                /\ cache'[reply'.attr.ino].parent = p
                /\ cache'[reply'.attr.ino].name = n
                /\ cache'[reply'.attr.ino].attr = reply'.attr
                /\ n \in DOMAIN cache'[p].data
                /\ cache'[p].data[n] =
                      [ino |-> reply'.attr.ino, name |-> n, entry_type |-> t]
                /\ n \in DOMAIN host'[p].entries
                /\ host'[p].entries[n] = reply'.attr.ino]_vars

\* C12: unlink/rmdir replies ENOENT when the name is absent from the parent's
\* table, and rmdir replies ENOTEMPTY when the named child directory's table is
\* non-empty; in both cases the i-node table, the trash and the host are
\* unchanged (the child is neither removed nor trashed).
C12_RemoveErrors ==
    [][req'.op \in RemoveOps =>
        LET p == req'.ino
            n == req'.name
        IN /\ n \notin DOMAIN cache[p].data =>
                /\ reply' = ReplyError("ENOENT")
                /\ cache' = cache /\ trash' = trash /\ host' = host
           /\ ( /\ req'.op = "rmdir"
                /\ n \in DOMAIN cache[p].data
                /\ cache[p].data[n].ino \in DOMAIN cache
                /\ cache[cache[p].data[n].ino].variant = "DIR"
                /\ DOMAIN cache[cache[p].data[n].ino].data # {} ) =>
                /\ reply' = ReplyError("ENOTEMPTY")
                /\ cache' = cache /\ trash' = trash /\ host' = host]_vars

\* rmdir of a directory that holds an entry was refused
C12_Witness ==
    /\ ~panicked
    /\ req.op = "rmdir"
    /\ reply = ReplyError("ENOTEMPTY")
    /\ req.name \in DOMAIN cache[req.ino].data
    /\ LET c == cache[req.ino].data[req.name].ino
       IN /\ c \in DOMAIN cache
          /\ cache[c].variant = "DIR"
          /\ DOMAIN cache[c].data # {}
          /\ c \notin trash

\* C13: lookup(parent, name) replies ENOENT exactly when the name is absent
\* from the parent's table; otherwise it replies with the child's attributes
\* and the child is then in the i-node table under the entry's ino, with the
\* variant the entry's kind names, on a cache hit and on a cache miss.
C13_LookupContract ==
    [][req'.op = "lookup" =>
        LET p == req'.ino
            n == req'.name
        IN IF n \notin DOMAIN cache[p].data
           THEN reply' = ReplyError("ENOENT") /\ cache' = cache
           ELSE LET e == cache[p].data[n]
                IN /\ reply'.kind = "entry"
                   /\ e.ino \in DOMAIN cache'
                   /\ cache'[e.ino].variant =
                         (IF e.entry_type = "Directory" THEN "DIR" ELSE "FILE")
                   /\ cache'[e.ino].attr.ino = e.ino
                   /\ reply'.attr = cache'[e.ino].attr
                   /\ cache'[p].data = cache[p].data]_vars

\* a lookup cache miss has just materialised a regular file
C13_Witness ==
    /\ ~panicked
    /\ req.op = "lookup"
    /\ reply.kind = "entry"
    /\ reply.attr.ino \in DOMAIN cache
    /\ ~kern[reply.attr.ino].made
    /\ kern[reply.attr.ino].refs = 1
    /\ cache[reply.attr.ino].variant = "FILE"

\* the i-node table without the i-node ino and without its parent's entry n
Undo(c, p, n, ino) == MapRemove([c EXCEPT ![p].data = MapRemove(@, n)], ino)

ReadBackStep ==
    /\ req.op = "write"
    /\ reply.kind = "written"
    /\ req.offset = 0
    /\ req.ino \in DOMAIN kern
    /\ kern[req.ino].made
    /\ req'.op = "read"
    /\ req'.ino = req.ino
    /\ req'.offset = 0
    /\ req'.size = Len(req.data)

\* C14 as claimed: for every byte sequence D, the empty one included,
\* mknod, write(offset 0, D), read(offset 0, size |D|) replies D.
C14_RoundTripAnyLength ==
    [][ReadBackStep => (reply'.kind = "data" /\ reply'.data = req.data)]_vars

\* C14 amended: for every non-empty byte sequence D, mknod, write(offset 0, D),
\* read(offset 0, size |D|) replies D; for the empty D the file stays empty
\* and the read replies EINVAL.
C14_RoundTripNonEmpty ==
    [][ReadBackStep =>
        IF req.data # <<>>
        THEN reply'.kind = "data" /\ reply'.data = req.data
        ELSE reply' = ReplyError("EINVAL")]_vars

\* a read gave back the bytes the file was written with from offset 0
C14_Witness ==
    /\ ~panicked
    /\ req.op = "read"
    /\ req.offset = 0
    /\ reply.kind = "data"
    /\ reply.data # <<>>
    /\ req.size = Len(reply.data)
    /\ kern[req.ino].made
    /\ cache[req.ino].content = reply.data
    /\ host[req.ino].bytes = reply.data

\* C16: a write at an offset beyond the content length prev_len leaves the
\* buffer as old content, offset - prev_len zero bytes, then data; attr.size
\* is offset + |data|; the write replies |data|; and reading the gap from
\* prev_len gives those zero bytes followed by the data.
C16_ZeroFill ==
    [][( /\ req'.op = "write"
         /\ req'.ino \in DOMAIN cache
         /\ cache[req'.ino].variant = "FILE"
         /\ req'.offset > Len(cache[req'.ino].content) ) =>
        LET old == cache[req'.ino].content
            gap == Zeros(req'.offset - Len(old))
            new == cache'[req'.ino].content
        IN /\ new = old \o gap \o req'.data
           /\ cache'[req'.ino].attr.size = req'.offset + Len(req'.data)
           /\ reply' = [Rep("written") EXCEPT !.n = Len(req'.data)]
           /\ read_in_range(new, Len(old))
           /\ read_data(new, Len(old), Len(gap) + Len(req'.data))
                 = gap \o req'.data]_vars

\* C17: a write at an offset below the content length truncates the buffer to
\* offset and appends data: the buffer is old[0..offset] then data, attr.size
\* is offset + |data|, and old bytes beyond offset + |data| are gone.
C17_TruncateThenAppend ==
    [][( /\ req'.op = "write"
         /\ req'.ino \in DOMAIN cache
         /\ cache[req'.ino].variant = "FILE"
         /\ req'.offset < Len(cache[req'.ino].content) ) =>
        /\ cache'[req'.ino].content =
              SubSeq(cache[req'.ino].content, 1, req'.offset) \o req'.data
        /\ cache'[req'.ino].attr.size = req'.offset + Len(req'.data)
        /\ reply' = [Rep("written") EXCEPT !.n = Len(req'.data)]]_vars

\* C18: read(ino, offset, size) on a file whose content (loaded on demand)
\* has length len replies content[offset .. min(offset + size, len)] when
\* offset < len and EINVAL when offset >= len.
C18_ReadRange ==
    [][( /\ req'.op = "read"
         /\ req'.ino \in DOMAIN cache
         /\ cache[req'.ino].variant = "FILE" ) =>
        LET content == cache'[req'.ino].content
            len == Len(content)
        IN IF req'.offset < len
           THEN /\ reply'.kind = "data"
                /\ reply'.data = SubSeq(content, req'.offset + 1,
                                        Min(req'.offset + req'.size, len))
           ELSE reply' = ReplyError("EINVAL")]_vars

\* C19: readdir(ino, offset k) replies the entries at ordinals k, k+1, ... of
\* the name-ordered table, the i-th of them (from 0) with next_offset k + i + 1.
C19_ReaddirOffsets ==
    [][(req'.op = "readdir" /\ req'.ino \in DOMAIN cache) =>
        LET all == iter(cache'[req'.ino].data)
            k == req'.offset
        IN /\ reply'.kind = "dir"
           /\ Len(reply'.data) = Max(0, Len(all) - k)
           /\ \A i \in 0 .. (Len(reply'.data) - 1) :
                 /\ reply'.data[i + 1].ino = all[k + i + 1].ino
                 /\ reply'.data[i + 1].name = all[k + i + 1].name
                 /\ reply'.data[i + 1].next_offset = k + i + 1]_vars

\* C20: after every write the host file's bytes equal the content buffer and
\* its length equals attr.size.
C20_HostMirrorsBuffer ==
    [][(req'.op = "write" /\ reply'.kind = "written") =>
        /\ host'[req'.ino].bytes = cache'[req'.ino].content
        /\ Len(host'[req'.ino].bytes) = cache'[req'.ino].attr.size]_vars

\* the step is a setattr that provides no field
SetattrEmpty(r) ==
    r.op = "setattr" /\ r.mode = None /\ r.uid = None /\ r.size = None /\ r.n = 0

\* C21: setattr with no field provided replies ENODATA and changes no
\* attribute of the i-node, ctime included, and no other state.
C21_SetattrEmpty ==
    [][SetattrEmpty(req') =>
        /\ reply' = ReplyError("ENODATA")
        /\ cache' = cache
        /\ UNCHANGED <<trash, host, handles, kern, panicked>>]_vars

C21_Witness ==
    /\ ~panicked
    /\ SetattrEmpty(req)
    /\ reply = ReplyError("ENODATA")
    /\ req.ino \in Files

\* C22: setattr with at least one field provided replies with the i-node's
\* attributes, in which every provided field has its new value (perm is the
\* mode's permission bits), ctime is now, and kind and ino are unchanged; a
\* mode of permission bits only (0o600) is served like any other.
C22_SetattrFields ==
    [][(req'.op = "setattr" /\ ~SetattrEmpty(req')) =>
        /\ reply'.kind = "attr"
        /\ reply'.attr = cache'[req'.ino].attr
        /\ req'.mode # None => reply'.attr.perm = req'.mode % PERM_MASK
        /\ req'.size # None => reply'.attr.size = req'.size
        /\ reply'.attr.ctime = "now"
        /\ reply'.attr.kind = cache[req'.ino].attr.kind
        /\ reply'.attr.ino = cache[req'.ino].attr.ino]_vars

\* C23: the entry reply of mkdir(p, n, m) has kind Directory and perm equal
\* to m's permission bits, and the entry reply of mknod(p, n, m) has kind
\* RegularFile and perm equal to m's permission bits (host umask 0).
C23_CreateModeToPerm ==
    [][(req'.op \in CreateOps /\ reply'.kind = "entry") =>
        /\ reply'.attr.kind =
              (IF req'.op = "mkdir" THEN "Directory" ELSE "RegularFile")
        /\ reply'.attr.perm = req'.mode % PERM_MASK]_vars

\* C24: every i-node in the table has open_count >= 0 and lookup_count >= 0,
\* whatever the kernel does within its rights (each forget within the
\* references it holds, each release on a handle it was given).
C24_CountersNonNegative ==
    \A i \in DOMAIN cache :
        cache[i].open_count >= 0 /\ cache[i].lookup_count >= 0

\* the kernel gave back everything it had on an i-node: its handle was
\* released after its last reference was forgotten
C24_Witness ==
    /\ ~panicked
    /\ req.op = "release"
    /\ reply = ReplyOk
    /\ req.ino \in DOMAIN cache
    /\ req.ino # FUSE_ROOT_ID
    /\ kern[req.ino].refs = 0
    /\ cache[req.ino].lookup_count = 0

\* C25: the i-node table holds the root in every reachable state.
C25_RootInTable ==
    /\ FUSE_ROOT_ID \in DOMAIN cache
    /\ cache[FUSE_ROOT_ID].variant = "DIR"

\* a forget has just completed the deferred removal of a child of the root
C25_Witness ==
    /\ ~panicked
    /\ req.op = "forget"
    /\ req.ino \notin DOMAIN cache
    /\ req.ino \notin DOMAIN host
    /\ FUSE_ROOT_ID \in DOMAIN cache
    /\ \A i \in DOMAIN cache \ {FUSE_ROOT_ID} : cache[i].parent = FUSE_ROOT_ID

\* C26: every name in every directory's entry table is a non-hidden name of
\* kind Directory or RegularFile, however the entry got there.
C26_NoHiddenEntries ==
    \A d \in Dirs : \A n \in DOMAIN cache[d].data :
        /\ not_hidden(n)
        /\ supported_type(cache[d].data[n].entry_type)

\* the handlers that are given a reply channel, and what each may send on it
ReplyKinds ==
    [getattr |-> {"attr"}, setattr |-> {"attr", "error"},
     open |-> {"opened"}, opendir |-> {"opened"}, release |-> {"ok"},
     read |-> {"data", "error"}, write |-> {"written"}, readdir |-> {"dir"},
     lookup |-> {"entry", "error"}, mknod |-> {"entry", "error"},
     mkdir |-> {"entry", "error"}, unlink |-> {"ok", "error"},
     rmdir |-> {"ok", "error"}]

\* C27: every handler with a reply channel that returns without aborting has
\* completed the channel, with a reply of its own kind, on every path.
C27_RepliesOnce ==
    [][(req'.op \in DOMAIN ReplyKinds /\ ~panicked') =>
        reply'.kind \in ReplyKinds[req'.op]]_vars

\* a listing was served while a handle was out
C27_Witness ==
    /\ ~panicked
    /\ req.op = "readdir"
    /\ reply.kind = "dir"
    /\ reply.data # <<>>
    /\ handles # {}

C29_ForgetKeepsNonEmptyDir ==
    [][( /\ req'.op = "forget"
         /\ req'.ino \in trash
         /\ cache[req'.ino].variant = "DIR"
         /\ DOMAIN cache[req'.ino].data # {} ) =>
        /\ req'.ino \in DOMAIN cache'
        /\ host' = host
        /\ ~panicked']_vars

\* C30: when the kernel forgets the last of the references it holds on a
\* trashed ino, the ino leaves the table and the trash and its host name is
\* unlinked, for i-nodes mknod/mkdir created and for i-nodes a lookup
\* cache miss materialised.
C30_DeferredDeletionCompletes ==
    [][( /\ req'.op = "forget"
         /\ req'.ino \in trash
         /\ req'.n = kern[req'.ino].refs ) =>
        /\ req'.ino \notin DOMAIN cache'
        /\ req'.ino \notin trash'
        /\ cache[req'.ino].name
              \notin DOMAIN host'[cache[req'.ino].parent].entries]_vars

\* the remove request reaches the deferred branch of helper_remove_node: the
\* name is in the parent's table, its i-node is in the i-node table, a
\* directory to remove is empty, the assertions of a debug build pass, and
\* the child's lookup_count is positive
ReachesTrashInsert(r) ==
    /\ r.op \in RemoveOps
    /\ r.name \in DOMAIN cache[r.ino].data
    /\ RemoveChild(r) \in DOMAIN cache
    /\ (ReqType(r) = "Directory" => is_empty(cache[RemoveChild(r)]))
    /\ debug => remove_asserts(cache[RemoveChild(r)], r.ino, RemoveChild(r),
                               r.name, ReqType(r))
    /\ defered_deletion(cache[RemoveChild(r)])

\* C31: an unlink/rmdir that reaches trash.insert finds the ino absent from
\* the trash, so the assertion on a fresh insertion holds, also when the
\* request is repeated on a name whose removal is still deferred.
C31_TrashInsertFresh ==
    [][ReachesTrashInsert(req') =>
        /\ RemoveChild(req') \notin trash
        /\ ~panicked']_vars

\* the names of a directory's table in the table's order
ListedNames(data) == [i \in 1 .. Cardinality(DOMAIN data) |-> iter(data)[i].name]

\* a listing that began at offset 0 has come to its end: the last reply is empty
ListingDone == req.op = "readdir" /\ req.page > 0 /\ reply.kind = "dir" /\ reply.data = <<>>

\* C32: a listing that starts at offset 0 and goes on, reply after reply, with
\* the next_offset of the last entry taken (one entry at least, not always all
\* of them) has, at its end, given every entry of the unmodified directory
\* exactly once.
C32_PagingListsAll ==
    ListingDone => req.listed = ListedNames(cache[req.ino].data)

\* C33: a write through a handle that open returned on a regular file in the
\* table replies |data|, whether mknod opened the file's descriptor
\* read-write or a lookup cache miss opened it read-only.
C33_WriteThroughHandle ==
    [][( /\ req'.op = "write"
         /\ req'.ino \in DOMAIN cache
         /\ cache[req'.ino].variant = "FILE" ) =>
        /\ reply' = [Rep("written") EXCEPT !.n = Len(req'.data)]
        /\ ~panicked']_vars

\* the request is a write to a regular file that a lookup materialised from a
\* non-empty host file and whose content was not loaded yet
WriteUnloaded(r) ==
    /\ r.op = "write"
    /\ r.ino \in DOMAIN cache
    /\ cache[r.ino].variant = "FILE"
    /\ ~kern[r.ino].made
    /\ need_load_data(cache[r.ino])
    /\ r.offset <= Len(host[r.ino].bytes)

\* C34: a write to a file whose content was not loaded yet keeps the host's
\* bytes below the write offset: the write is served, and what a read from 0
\* returns afterwards is the host's prior bytes 0 .. offset, then the data.
C34_WriteKeepsHostPrefix ==
    [][WriteUnloaded(req') =>
        /\ ~panicked'
        /\ reply'.kind = "written"
        /\ cache'[req'.ino].content =
              SubSeq(host[req'.ino].bytes, 1, req'.offset) \o req'.data]_vars

\* the host directory of d holds a regular file or a directory under name n
HostHolds(d, n) ==
    /\ n \in DOMAIN host[d].entries
    /\ supported_type(host_d_type(host[host[d].entries[n]]))

ErrorReplies ==
    [mknod |-> {"EEXIST"}, mkdir |-> {"EEXIST"}, lookup |-> {"ENOENT"},
     unlink |-> {"ENOENT"}, rmdir |-> {"ENOENT", "ENOTEMPTY"},
     setattr |-> {"ENODATA"}]

\* C36: a mknod/mkdir that replies EEXIST, a lookup/unlink/rmdir that replies
\* ENOENT, a rmdir that replies ENOTEMPTY and a setattr that replies ENODATA
\* leave the i-node table (every entry table, counter and attribute in it),
\* the trash, the handles and the host as they were.
C36_ErrorsChangeNothing ==
    [][( /\ req'.op \in DOMAIN ErrorReplies
         /\ reply'.kind = "error" ) =>
        /\ reply'.errno \in ErrorReplies[req'.op]
        /\ cache' = cache
        /\ trash' = trash
        /\ host' = host
        /\ handles' = handles
        /\ ~panicked']_vars

\* a rmdir was refused on a directory that holds an entry
C36_Witness ==
    /\ ~panicked
    /\ req.op = "rmdir"
    /\ reply = ReplyError("ENOTEMPTY")
    /\ req.name \in DOMAIN cache[req.ino].data
    /\ RemoveChild(req) \in Dirs
    /\ DOMAIN cache[RemoveChild(req)].data # {}
    /\ req.name \in DOMAIN host[req.ino].entries

\* the remove request names a child of the other kind: unlink on a directory
\* or rmdir on a regular file
KindMismatch(r) ==
    /\ r.op \in RemoveOps
    /\ r.name \in DOMAIN cache[r.ino].data
    /\ RemoveChild(r) \in DOMAIN cache
    /\ get_type(cache[RemoveChild(r)]) # ReqType(r)

\* C37: unlink on a name bound to a directory and rmdir on a name bound to a
\* regular file remove nothing: the child stays in the table and under its
\* name in the parent's table, the host is untouched and the trash is as it
\* was.
C37_MismatchRemovesNothing ==
    [][KindMismatch(req') =>
        /\ RemoveChild(req') \in DOMAIN cache'
        /\ req'.name \in DOMAIN cache'[req'.ino].data
        /\ host' = host
        /\ trash' = trash]_vars

\* one descriptor per i-node in the table, one per handle not yet released
ExpectedFds ==
    {InodeFd(i) : i \in DOMAIN cache} \cup {HandleFd(h.fh, h.ino) : h \in handles}

\* C38: in every reachable state the open descriptors are exactly one per
\* i-node in the table plus one per handle that open/opendir returned and
\* that was not released yet; an open/opendir adds exactly the descriptor of
\* the handle it returns, a release/releasedir that is served closes exactly
\* the descriptor of its handle, and a step that takes an i-node out of the
\* table closes exactly that i-node's descriptor.
C38_DescriptorAccounting ==
    /\ [](fds = ExpectedFds)
    /\ [][/\ (req'.op \in {"open", "opendir"} /\ reply'.kind = "opened") =>
                /\ HandleFd(reply'.n, req'.ino) \notin fds
                /\ fds' = fds \cup {HandleFd(reply'.n, req'.ino)}
          /\ (req'.op = "release" /\ ~panicked') =>
                /\ HandleFd(req'.fh, req'.ino) \in fds
                /\ fds' = fds \ {HandleFd(req'.fh, req'.ino)}
          /\ \A i \in DOMAIN cache \ DOMAIN cache' :
                /\ InodeFd(i) \in fds
                /\ fds' = fds \ {InodeFd(i)}]_vars

\* an i-node left the table while a handle on it is out: its own descriptor
\* is closed, the handle's is open
C38_Witness ==
    /\ ~panicked
    /\ \E h \in handles :
          /\ h.ino \notin DOMAIN cache
          /\ HandleFd(h.fh, h.ino) \in fds
          /\ InodeFd(h.ino) \notin fds

\* the handles open/opendir returned on i-node i that were not released yet
HandlesOn(i) == {h \in handles : h.ino = i}

\* C39 as claimed: for every i-node in the table, open_count is the number of
\* handles that open/opendir returned on it and that were not released yet.
C39_OpenCountIsHandles ==
    \A i \in DOMAIN cache : cache[i].open_count = Cardinality(HandlesOn(i))

\* C39 amended: for every i-node in the table, open_count is one more than
\* the number of handles that open/opendir returned on it and that were not
\* released yet: an i-node is built with open_count 1, for its own descriptor.
C39_OpenCountIsHandlesPlusOwn ==
    \A i \in DOMAIN cache :
        cache[i].open_count = NewOpenCount + Cardinality(HandlesOn(i))

\* an open has just returned a handle on an i-node below the root
C39_Witness ==
    /\ ~panicked
    /\ req.op \in {"open", "opendir"}
    /\ reply.kind = "opened"
    /\ req.ino # FUSE_ROOT_ID
    /\ req.ino \in DOMAIN cache
    /\ HandlesOn(req.ino) # {}
    /\ cache[req.ino].open_count = 2

\* the request is a lookup of a name whose i-node is not in the table
LookupMiss(r) ==
    /\ r.op = "lookup"
    /\ r.name \in DOMAIN cache[r.ino].data
    /\ cache[r.ino].data[r.name].ino \notin DOMAIN cache

\* the request is an unlink/rmdir of a child the kernel holds no reference
\* on (removed at once) / holds references on (removal deferred)
ImmediateRemove(r) ==
    /\ r.op \in RemoveOps
    /\ r.name \in DOMAIN cache[r.ino].data
    /\ RemoveChild(r) \in DOMAIN cache
    /\ cache[RemoveChild(r)].lookup_count = 0
DeferredRemove(r) ==
    /\ r.op \in RemoveOps
    /\ r.name \in DOMAIN cache[r.ino].data
    /\ RemoveChild(r) \in DOMAIN cache
    /\ cache[RemoveChild(r)].lookup_count > 0

\* the handlers the claim lists as leaving the table's ids and the trash alone
FrameOps ==
    {"getattr", "open", "opendir", "release", "releasedir", "read", "readdir",
     "setattr", "write"}

\* ids enter the table only in mknod, mkdir and a lookup cache miss
TableGrowsOnlyByCreate ==
    DOMAIN cache' \ DOMAIN cache # {} =>
        /\ req'.op \in CreateOps \/ LookupMiss(req')
        /\ DOMAIN cache \subseteq DOMAIN cache'

\* the trash changes only in a deferred unlink/rmdir, which adds the child,
\* and in forget, which takes its ino out
TrashChangesOnlyByDeferForget ==
    trash' # trash =>
        \/ DeferredRemove(req') /\ trash' = trash \cup {RemoveChild(req')}
        \/ req'.op = "forget" /\ trash' = trash \ {req'.ino}

\* the listed handlers and a lookup cache hit change neither
FrameOpsKeepBoth ==
    (req'.op \in FrameOps \/ (req'.op = "lookup" /\ ~LookupMiss(req'))) =>
        (DOMAIN cache' = DOMAIN cache /\ trash' = trash)

====
